---- MODULE Spec2Model ----
(***************************************************************************)
(* Pokemon sealed-product tracker: the transaction ledger, the price       *)
(* snapshots and the portfolio recompiler that folds both into the         *)
(* portfolio_holdings, daily_portfolio_value and per_product_cost_history  *)
(* tables.                                                                 *)
(*                                                                         *)
(* Money is held in fixed point.  One unit is 1/(1000 * Scale) dollar, so  *)
(* that every unrounded amount the program computes (a quantity times a    *)
(* price, a buy cost divided by a bought quantity) is a whole number of    *)
(* units.  Python's binary floats are modelled as exact decimals.          *)
(***************************************************************************)
EXTENDS Integers, FiniteSets, Sequences, TLC

\* ------------------------------------------------------------------ bounds
MaxTx   == 2      \* ledger rows ever inserted (transaction_id values)
MaxQty  == 2      \* largest quantity of one request
MaxDate == 3      \* calendar days 1..MaxDate

\* ------------------------------------------------------- the environment
Today    == 2                      \* date.today()
Products == {1, 2}                 \* productId column of sealed_products_tracking.csv
Dates    == 1..MaxDate
NULL     == -1                     \* SQL NULL / Python None / NaN
Types    == {"BUY", "SELL", "OPEN"}

\* earliestDate column of sealed_products_tracking.csv
EarliestDate(p) == IF p = 1 THEN 1 ELSE 2

RECURSIVE Gcd(_, _)
Gcd(a, b) == IF b = 0 THEN a ELSE Gcd(b, a % b)

RECURSIVE LcmUpTo(_)
LcmUpTo(n) == IF n <= 1 THEN 1 ELSE LET l == LcmUpTo(n - 1) IN (l * n) \div Gcd(l, n)

Scale  == LcmUpTo(MaxQty * MaxTx)
Mill   == Scale                    \* $0.001
Cent   == 10 * Mill                \* $0.01

\* price_per_unit values a caller may send: $1.00 and $1.005
TxPrices == {1000 * Mill, 1005 * Mill}

Min(S) == CHOOSE x \in S : \A y \in S : x <= y
Max(S) == CHOOSE x \in S : \A y \in S : y <= x

\* Series.sum(): the sum of f over the rows S
RECURSIVE SumFn(_, _)
SumFn(f, S) ==
  IF S = {} THEN 0
  ELSE LET x == CHOOSE y \in S : TRUE IN f[x] + SumFn(f, S \ {x})


\* Decimal(str(price)).quantize(Decimal('0.01'), rounding=ROUND_HALF_UP):
\* to the nearest cent, a tie going away from zero.
round_price(price) ==
  IF price < 0 THEN -(Cent * ((2 * (-price) + Cent) \div (2 * Cent)))
  ELSE Cent * ((2 * price + Cent) \div (2 * Cent))

\* ------------------------------------------------ portfolio_recompiler.py
\* total_amount.fillna(quantity * price_per_unit); a NaN is skipped by sum()
Amount(t) ==
  IF t.total_amount # NULL THEN t.total_amount
  ELSE IF t.price_per_unit # NULL THEN t.quantity * t.price_per_unit
  ELSE 0

\* quantity * price_per_unit; a NaN is skipped by sum()
QtyTimesPrice(t) == IF t.price_per_unit # NULL THEN t.quantity * t.price_per_unit ELSE 0

Quantity(t) == t.quantity

OfType(txs, type) == {t \in txs : t.transaction_type = type}

\* transactions_df[transactions_df['transaction_date'] <= target_date]
\* A wrong variant of the date filter: the cutoff day itself is left out
relevant_transactions_strict(txs, target_date) ==
  {t \in txs : t.transaction_date < target_date}
relevant_transactions(txs, target_date) ==
  {t \in txs : t.transaction_date <= target_date}

\* A wrong variant of cost_basis_quantity: opened units are taken off too
cost_basis_quantity_less_opened(total_bought, total_sold, total_opened) ==
  total_bought - total_sold - total_opened
cost_basis_quantity(total_bought, total_sold, total_opened) ==
  total_bought - total_sold

sealed_quantity(total_bought, total_sold, total_opened) ==
  total_bought - total_sold - total_opened

\* total_cost_basis = buy_amount - sell_amount
\* A wrong variant: the remaining quantity at the average purchase cost
holding_total_cost_basis_remaining(buy_amount, sell_amount, quantity, avg_purchase_cost) ==
  quantity * avg_purchase_cost
holding_total_cost_basis(buy_amount, sell_amount, quantity, avg_purchase_cost) ==
  buy_amount - sell_amount

\* The holding of one product over its transactions up to the target date.
ProductHolding(product_transactions) ==
  LET bought       == OfType(product_transactions, "BUY")
      sold         == OfType(product_transactions, "SELL")
      opened       == OfType(product_transactions, "OPEN")
      total_bought == SumFn([x \in bought |-> Quantity(x)], bought)
      total_sold   == SumFn([x \in sold |-> Quantity(x)], sold)
      total_opened == SumFn([x \in opened |-> Quantity(x)], opened)
      buy_amount   == SumFn([x \in bought |-> Amount(x)], bought)
      sell_amount  == SumFn([x \in sold |-> Amount(x)], sold)
      buy_cost     == SumFn([x \in bought |-> QtyTimesPrice(x)], bought)
      avg_purchase_cost == IF total_bought > 0 THEN buy_cost \div total_bought ELSE 0
  IN [cost_basis_quantity   |-> cost_basis_quantity(total_bought, total_sold, total_opened),
      sealed_quantity       |-> sealed_quantity(total_bought, total_sold, total_opened),
      total_cost_basis      |-> round_price(holding_total_cost_basis(
                                   buy_amount, sell_amount,
                                   total_bought - total_sold, avg_purchase_cost)),
      average_cost_per_unit |-> round_price(avg_purchase_cost),
      total_bought          |-> total_bought,
      total_sold            |-> total_sold,
      total_opened          |-> total_opened]

\* PortfolioRecompiler.calculate_holdings_at_date: product_id -> holding
calculate_holdings_at_date(txs, target_date) ==
  LET rel  == relevant_transactions(txs, target_date)
      pids == {t.product_id : t \in rel}
  IN [p \in pids |-> ProductHolding({t \in rel : t.product_id = p})]


\* PortfolioRecompiler.get_available_price_dates: the dates that have a file
get_available_price_dates(files) == DOMAIN files

\* PortfolioRecompiler.get_market_price: None when the file, the product's row
\* or its marketPrice is missing
get_market_price(files, product_id, target_date) ==
  IF target_date \in DOMAIN files THEN files[target_date][product_id] ELSE NULL

\* The dates recalculate_daily_portfolio_values walks: price dates, transaction
\* dates and today, from the earliest transaction date on.
\* Variant of available_dates that keeps the dates before the earliest
\* transaction date (used to test C17).
available_dates_unfiltered(txs, files) ==
  get_available_price_dates(files) \cup {t.transaction_date : t \in txs} \cup {Today}

available_dates(txs, files) ==
  LET tx_dates         == {t.transaction_date : t \in txs}
      combined         == get_available_price_dates(files) \cup tx_dates \cup {Today}
      earliest_tx_date == Min(tx_dates)
  IN {d \in combined : d >= earliest_tx_date}

\* The price the loop ends up with for one product on calc_date: the file of
\* calc_date, else the latest earlier date of the walked dates that has one.
market_price_for(files, dates, product_id, calc_date, sealed_qty) ==
  LET direct == get_market_price(files, product_id, calc_date)
      price_dates == {d \in dates : d <= calc_date
                                     /\ get_market_price(files, product_id, d) # NULL}
  IN IF direct = NULL /\ sealed_qty > 0 /\ price_dates # {}
     THEN get_market_price(files, product_id, Max(price_dates))
     ELSE direct

\* realized P&L of one SELL row, against the average cost of the BUY rows
\* of its product dated up to calc_date
\* A wrong variant: the average is over every BUY row, whatever its date
realized_of_sell_any_date(txs, sell, calc_date) ==
  LET buys == {t \in txs : t.product_id = sell.product_id /\ t.transaction_type = "BUY"}
      total_buy_qty  == SumFn([x \in buys |-> Quantity(x)], buys)
      total_buy_cost == SumFn([x \in buys |-> QtyTimesPrice(x)], buys)
      avg_cost == IF total_buy_qty > 0 THEN total_buy_cost \div total_buy_qty ELSE 0
  IN Amount(sell) - sell.quantity * avg_cost
realized_of_sell(txs, sell, calc_date) ==
  LET prior_buys == {t \in txs : /\ t.product_id = sell.product_id
                                 /\ t.transaction_type = "BUY"
                                 /\ t.transaction_date <= calc_date}
      total_buy_qty  == SumFn([x \in prior_buys |-> Quantity(x)], prior_buys)
      total_buy_cost == SumFn([x \in prior_buys |-> QtyTimesPrice(x)], prior_buys)
      avg_cost == IF total_buy_qty > 0 THEN total_buy_cost \div total_buy_qty ELSE 0
      proceeds == Amount(sell)
  IN proceeds - sell.quantity * avg_cost

realized_on(txs, calc_date) ==
  LET sells_on_date == {t \in txs : /\ t.transaction_date = calc_date
                                    /\ t.transaction_type = "SELL"}
      R(sell) == realized_of_sell(txs, sell, calc_date)
  IN SumFn([x \in sells_on_date |-> R(x)], sells_on_date)

\* The dates the loop has been through once it handles calc_date
\* A wrong variant: only calc_date itself
dates_processed_current_only(dates, calc_date) == {d \in dates : d = calc_date}
dates_processed(dates, calc_date) == {d \in dates : d <= calc_date}

\* cumulative_realized_pnl before the first date of the loop
\* (a wrong variant: the total of the previous run's latest row is carried over)
initial_realized_pnl_carried(old_daily) ==
  IF old_daily = {} THEN 0
  ELSE (CHOOSE r \in old_daily : \A o \in old_daily : o.date <= r.date).cumulative_realized_pnl
initial_realized_pnl(old_daily) == 0

\* The daily_portfolio_value row of calc_date
daily_row(txs, files, dates, calc_date, realized_before) ==
  LET holdings == calculate_holdings_at_date(txs, calc_date)
      CostBasis(p) == holdings[p].total_cost_basis
      MarketValue(p) ==
        LET sealed_qty   == holdings[p].sealed_quantity
            market_price == market_price_for(files, dates, p, calc_date, sealed_qty)
        IN IF market_price # NULL /\ market_price # 0 /\ sealed_qty > 0
           THEN sealed_qty * market_price ELSE 0
      Realized(d) == realized_on(txs, d)
      total_cost_basis        == SumFn([x \in DOMAIN holdings |-> CostBasis(x)], DOMAIN holdings)
      total_market_value      == SumFn([x \in DOMAIN holdings |-> MarketValue(x)], DOMAIN holdings)
      cumulative_realized_pnl ==
        LET upto == dates_processed(dates, calc_date)
        IN realized_before + SumFn([x \in upto |-> Realized(x)], upto)
      unrealized_pnl          == total_market_value - total_cost_basis
  IN [date                    |-> calc_date,
      total_cost_basis        |-> round_price(total_cost_basis),
      total_market_value      |-> round_price(total_market_value),
      unrealized_pnl          |-> round_price(unrealized_pnl),
      cumulative_realized_pnl |-> round_price(cumulative_realized_pnl)]

\* The per_product_cost_history row of one product on calc_date
cost_history_row(txs, product_id, calc_date) ==
  LET holding  == calculate_holdings_at_date(txs, calc_date)[product_id]
      txs_upto == {t \in txs : t.product_id = product_id /\ t.transaction_date <= calc_date}
      buy_amt  == SumFn([x \in OfType(txs_upto, "BUY") |-> Amount(x)], OfType(txs_upto, "BUY"))
      sell_amt == SumFn([x \in OfType(txs_upto, "SELL") |-> Amount(x)], OfType(txs_upto, "SELL"))
  IN [product_id            |-> product_id,
      date                  |-> calc_date,
      cumulative_buy_amt    |-> buy_amt,
      cumulative_sell_amt   |-> sell_amt,
      cumulative_cost_basis |-> buy_amt - sell_amt,
      sealed_quantity       |-> holding.sealed_quantity,
      cost_basis_quantity   |-> holding.cost_basis_quantity,
      average_cost_per_unit |-> holding.average_cost_per_unit,
      total_cost_basis      |-> holding.total_cost_basis]

\* The rows update_portfolio_holdings_table inserts after its DELETE
holdings_rows(txs) ==
  LET current_holdings == calculate_holdings_at_date(txs, Today)
  IN {[product_id            |-> p,
       total_quantity_bought |-> current_holdings[p].total_bought,
       total_quantity_sold   |-> current_holdings[p].total_sold,
       total_quantity_opened |-> current_holdings[p].total_opened,
       current_quantity      |-> current_holdings[p].sealed_quantity,
       total_cost_basis      |-> current_holdings[p].total_cost_basis,
       average_cost_per_unit |-> current_holdings[p].average_cost_per_unit]
      : p \in DOMAIN current_holdings}

\* The rows recalculate_daily_portfolio_values inserts into daily_portfolio_value
daily_rows(txs, files, old_daily) ==
  LET dates == available_dates(txs, files)
  IN {daily_row(txs, files, dates, d, initial_realized_pnl(old_daily)) : d \in dates}

\* The rows it inserts into per_product_cost_history
\* Variant of cost_history_rows that writes rows only for the products still
\* held sealed (used to test C25).
cost_history_rows_held_only(txs, files) ==
  UNION {{cost_history_row(txs, p, d)
            : p \in {x \in DOMAIN calculate_holdings_at_date(txs, d)
                       : calculate_holdings_at_date(txs, d)[x].sealed_quantity > 0}}
         : d \in available_dates(txs, files)}

cost_history_rows(txs, files) ==
  UNION {{cost_history_row(txs, p, d) : p \in DOMAIN calculate_holdings_at_date(txs, d)}
         : d \in available_dates(txs, files)}

\* PortfolioRecompiler.get_portfolio_summary
get_portfolio_summary(holdings_table, daily_table) ==
  LET held == {h \in holdings_table : h.current_quantity > 0}
      Qty(h) == h.current_quantity
      Cost(h) == h.total_cost_basis
      latest == IF daily_table = {} THEN NULL
                ELSE CHOOSE r \in daily_table : \A o \in daily_table : o.date <= r.date
  IN [total_products       |-> Cardinality(held),
      total_quantity       |-> SumFn([x \in held |-> Qty(x)], held),
      total_cost_basis     |-> SumFn([x \in held |-> Cost(x)], held),
      current_market_value |-> IF daily_table = {} THEN 0 ELSE latest.total_market_value,
      unrealized_pnl       |-> IF daily_table = {} THEN 0 ELSE latest.unrealized_pnl]


\* ------------------------------------- database.py, transaction_manager.py
\* TransactionDatabase.update_portfolio_holdings: one product's row, from its
\* rows that are not marked deleted, whatever their date
update_portfolio_holdings(holdings_table, txs, product_id) ==
  LET transactions == {t \in txs : t.product_id = product_id /\ ~t.is_deleted}
      bought       == OfType(transactions, "BUY")
      sold         == OfType(transactions, "SELL")
      opened       == OfType(transactions, "OPEN")
      total_bought == SumFn([x \in bought |-> Quantity(x)], bought)
      total_sold   == SumFn([x \in sold |-> Quantity(x)], sold)
      total_opened == SumFn([x \in opened |-> Quantity(x)], opened)
      current_quantity  == total_bought - total_sold - total_opened
      buy_cost          == SumFn([x \in bought |-> QtyTimesPrice(x)], bought)
      avg_purchase_cost == IF total_bought > 0 THEN buy_cost \div total_bought ELSE 0
      total_cost_basis  == IF current_quantity > 0 THEN current_quantity * avg_purchase_cost ELSE 0
      others == {h \in holdings_table : h.product_id # product_id}
  IN IF transactions = {} THEN others
     ELSE others \cup {[product_id            |-> product_id,
                        total_quantity_bought |-> total_bought,
                        total_quantity_sold   |-> total_sold,
                        total_quantity_opened |-> total_opened,
                        current_quantity      |-> current_quantity,
                        total_cost_basis      |-> total_cost_basis,
                        average_cost_per_unit |-> avg_purchase_cost]}

\* TransactionManager.calculate_portfolio_value_for_date: <<cost basis, market value>>
calculate_portfolio_value_for_date(txs, files, target_date) ==
  LET all_transactions == {t \in txs : ~t.is_deleted}
      rel   == {t \in all_transactions : t.transaction_date <= target_date}
      Of(p) == {t \in rel : t.product_id = p}
      CurrentQuantity(p) == SumFn([x \in OfType(Of(p), "BUY") |-> Quantity(x)], OfType(Of(p), "BUY"))
                            - SumFn([x \in OfType(Of(p), "SELL") |-> Quantity(x)], OfType(Of(p), "SELL"))
                            - SumFn([x \in OfType(Of(p), "OPEN") |-> Quantity(x)], OfType(Of(p), "OPEN"))
      held  == {p \in {t.product_id : t \in rel} : CurrentQuantity(p) > 0}
      CostBasis(p) == SumFn([x \in OfType(Of(p), "BUY") |-> QtyTimesPrice(x)], OfType(Of(p), "BUY"))
                      - SumFn([x \in OfType(Of(p), "SELL") |-> QtyTimesPrice(x)], OfType(Of(p), "SELL"))
      MarketValue(p) ==
        LET market_price == get_market_price(files, p, target_date)
        IN IF market_price # NULL /\ market_price # 0
           THEN CurrentQuantity(p) * market_price ELSE 0
  IN <<SumFn([x \in held |-> CostBasis(x)], held), SumFn([x \in held |-> MarketValue(x)], held)>>

\* TransactionManager.recalculate_daily_values_from_date: INSERT OR REPLACE of
\* the rows of the price dates from start_date on
recalculate_daily_values_from_date(daily_table, txs, files, start_date) ==
  LET dates == {d \in DOMAIN files : d >= start_date}
      Row(d) == LET v == calculate_portfolio_value_for_date(txs, files, d)
                IN [date                    |-> d,
                    total_cost_basis        |-> v[1],
                    total_market_value      |-> v[2],
                    unrealized_pnl          |-> v[2] - v[1],
                    cumulative_realized_pnl |-> 0]
  IN {r \in daily_table : r.date \notin dates} \cup {Row(d) : d \in dates}

\* TransactionManager.validate_inventory: against the portfolio_holdings table
validate_inventory(holdings_table, product_id, quantity, transaction_type) ==
  \/ transaction_type = "BUY"
  \/ \E h \in holdings_table : /\ h.current_quantity > 0
                               /\ h.product_id = product_id
                               /\ h.current_quantity >= quantity

\* Variant of validate_transaction_date that stores the date as entered
\* (used to test C22).
validate_transaction_date_unadjusted(product_id, input_date) == <<input_date, FALSE>>

\* validate_transaction_date: <<transaction_date, date_adjusted>>
validate_transaction_date(product_id, input_date) ==
  IF input_date < EarliestDate(product_id)
  THEN <<EarliestDate(product_id), TRUE>>
  ELSE <<input_date, FALSE>>

\* ------------------------------------------------------------- web_app.py
\* Variant of validate_inventory_for_transaction that asks only for some
\* stock, whatever the quantity wanted (used to test C27).
validate_inventory_for_transaction_any_stock(txs, product_id, quantity, transaction_type) ==
  LET rows == {t \in txs : t.product_id = product_id}
      current_quantity == SumFn([x \in OfType(rows, "BUY") |-> Quantity(x)], OfType(rows, "BUY"))
                          - SumFn([x \in OfType(rows, "SELL") |-> Quantity(x)], OfType(rows, "SELL"))
                          - SumFn([x \in OfType(rows, "OPEN") |-> Quantity(x)], OfType(rows, "OPEN"))
  IN transaction_type = "BUY" \/ current_quantity >= 1

\* validate_inventory_for_transaction: against every row of the product
validate_inventory_for_transaction(txs, product_id, quantity, transaction_type) ==
  LET rows == {t \in txs : t.product_id = product_id}
      current_quantity == SumFn([x \in OfType(rows, "BUY") |-> Quantity(x)], OfType(rows, "BUY"))
                          - SumFn([x \in OfType(rows, "SELL") |-> Quantity(x)], OfType(rows, "SELL"))
                          - SumFn([x \in OfType(rows, "OPEN") |-> Quantity(x)], OfType(rows, "OPEN"))
  IN transaction_type = "BUY" \/ current_quantity >= quantity

\* --------------------------------------------------------------- the state
VARIABLES
  ledger,      \* the transactions table: a set of rows
  nextId,      \* the next AUTOINCREMENT transaction_id
  prices,      \* daily_prices/: date -> (productId -> marketPrice or NULL)
  holdings,    \* the portfolio_holdings table
  daily,       \* the daily_portfolio_value table
  history,     \* the per_product_cost_history table
  pc,          \* where the portfolio_recompiler.py process is
  fault,       \* the step of the running recompilation in which it will end
               \* abnormally (an exception, or the caller's timeout), if any
  webPending,  \* a web_app handler has committed and waits for its recompiler
  cleanRuns,   \* history: recompilations completed since the last change of
               \* the ledger, the prices or the derived tables by anyone else
  runDirty,    \* history: such a change happened while the run was under way
  updater      \* a second portfolio_recompiler.py process, started by the
               \* daily updater: where it is and the transactions it has read

vars == <<ledger, nextId, prices, holdings, daily, history, pc, fault,
          webPending, cleanRuns, runDirty, updater>>

tables == <<holdings, daily, history>>

\* The second process before it is started
UpdaterIdle == [pc |-> "idle", transactions_df |-> {}]

Running == pc \in {"holdings", "daily"}

\* bookkeeping of a change made by anyone but the recompiler
Changed == /\ cleanRuns' = 0
           /\ runDirty' = (runDirty \/ Running)

NewRow(product_id, transaction_type, quantity, price_per_unit, total_amount, input_date) ==
  [transaction_id   |-> nextId,
   product_id       |-> product_id,
   transaction_type |-> transaction_type,
   quantity         |-> quantity,
   price_per_unit   |-> price_per_unit,
   total_amount     |-> total_amount,
   transaction_date |-> validate_transaction_date(product_id, input_date)[1],
   input_date       |-> input_date,
   date_adjusted    |-> validate_transaction_date(product_id, input_date)[2],
   is_deleted       |-> FALSE]

\* The price files present at the start: one for day 1
Init ==
  /\ ledger = {}
  /\ nextId = 1
  /\ prices = (1 :> [p \in Products |-> IF p = 1 THEN 125 * Mill ELSE NULL])
  /\ holdings = {}
  /\ daily = {}
  /\ history = {}
  /\ pc = "idle"
  /\ fault = "none"
  /\ webPending = FALSE
  /\ cleanRuns = 0
  /\ runDirty = FALSE
  /\ updater = UpdaterIdle

\* web_app.add_transaction, an accepted request: the row is committed and the
\* handler blocks in run_portfolio_recompiler
WebAddTransaction(product_id, transaction_type, quantity, input_date, price) ==
  LET price_per_unit == IF transaction_type = "OPEN" THEN NULL ELSE round_price(price)
      total_amount   == IF price_per_unit = NULL THEN NULL
                        ELSE round_price(quantity * price_per_unit)
  IN /\ ~webPending
     /\ nextId <= MaxTx
     /\ validate_inventory_for_transaction(ledger, product_id, quantity, transaction_type)
     /\ ledger' = ledger \cup {NewRow(product_id, transaction_type, quantity,
                                      price_per_unit, total_amount, input_date)}
     /\ nextId' = nextId + 1
     /\ webPending' = TRUE
     /\ Changed
     /\ UNCHANGED <<updater, prices, holdings, daily, history, pc, fault>>

\* web_app.delete_transaction: hard delete, then run_portfolio_recompiler
WebDeleteTransaction(transaction_id) ==
  /\ ~webPending
  /\ \E t \in ledger : t.transaction_id = transaction_id
  /\ ledger' = {t \in ledger : t.transaction_id # transaction_id}
  /\ webPending' = TRUE
  /\ Changed
  /\ UNCHANGED <<updater, nextId, prices, holdings, daily, history, pc, fault>>

\* TransactionManager.add_transaction (the Streamlit app), an accepted request
TMAddTransaction(product_id, transaction_type, quantity, input_date, price) ==
  LET price_per_unit == IF transaction_type = "OPEN" THEN NULL ELSE price
      total_amount   == IF price_per_unit = NULL THEN NULL ELSE quantity * price_per_unit
      row == NewRow(product_id, transaction_type, quantity, price_per_unit,
                    total_amount, input_date)
  IN /\ nextId <= MaxTx
     /\ validate_inventory(holdings, product_id, quantity, transaction_type)
     /\ ledger' = ledger \cup {row}
     /\ nextId' = nextId + 1
     /\ holdings' = update_portfolio_holdings(holdings, ledger', product_id)
     /\ daily' = recalculate_daily_values_from_date(daily, ledger', prices,
                                                    row.transaction_date)
     /\ Changed
     /\ UNCHANGED <<updater, prices, history, pc, fault, webPending>>

\* fastapi_app.delete_transaction and the Streamlit delete button: the row is
\* marked deleted
SoftDeleteTransaction(transaction_id) ==
  \E t \in ledger :
    /\ t.transaction_id = transaction_id
    /\ ~t.is_deleted
    /\ ledger' = (ledger \ {t}) \cup {[t EXCEPT !.is_deleted = TRUE]}
    /\ holdings' = update_portfolio_holdings(holdings, ledger', t.product_id)
    /\ daily' = recalculate_daily_values_from_date(daily, ledger', prices,
                                                   t.transaction_date)
    /\ Changed
    /\ UNCHANGED <<updater, nextId, prices, history, pc, fault, webPending>>

\* delete_transaction.delete_transaction_and_update: hard delete
ScriptDeleteTransaction(transaction_id) ==
  \E t \in ledger :
    /\ t.transaction_id = transaction_id
    /\ ledger' = ledger \ {t}
    /\ holdings' = update_portfolio_holdings(holdings, ledger', t.product_id)
    /\ daily' = recalculate_daily_values_from_date(daily, ledger', prices,
                                                   t.transaction_date)
    /\ Changed
    /\ UNCHANGED <<updater, nextId, prices, history, pc, fault, webPending>>

\* daily_price_tracker: today's snapshot file is written
SavePrices(snapshot) ==
  /\ prices' = [d \in DOMAIN prices \cup {Today} |->
                  IF d = Today THEN snapshot ELSE prices[d]]
  /\ prices' # prices
  /\ Changed
  /\ UNCHANGED <<updater, ledger, nextId, holdings, daily, history, pc, fault, webPending>>

\* portfolio_recompiler.py starts (from a web handler, the daily tracker or
\* by hand); f is the step at which this run will raise, if any
RecompileAll(f) ==
  /\ ~Running
  /\ pc' = "holdings"
  /\ fault' = f
  /\ runDirty' = FALSE
  /\ UNCHANGED <<updater, ledger, nextId, prices, holdings, daily, history,
                 webPending, cleanRuns>>

\* PortfolioRecompiler.update_portfolio_holdings_table, committed
UpdatePortfolioHoldingsTable ==
  /\ pc = "holdings"
  /\ fault # "holdings"
  /\ holdings' = IF ledger = {} THEN {} ELSE holdings_rows(ledger)
  /\ pc' = "daily"
  /\ UNCHANGED <<updater, ledger, nextId, prices, daily, history, fault, webPending,
                 cleanRuns, runDirty>>

\* PortfolioRecompiler.recalculate_daily_portfolio_values, committed;
\* recompile_all returns True
RecalculateDailyPortfolioValues ==
  /\ pc = "daily"
  /\ fault # "daily"
  /\ daily' = IF ledger = {} THEN {} ELSE daily_rows(ledger, prices, daily)
  /\ history' = IF ledger = {} THEN history ELSE cost_history_rows(ledger, prices)
  /\ pc' = "done"
  /\ fault' = "none"
  /\ webPending' = FALSE
  /\ cleanRuns' = IF runDirty THEN 0 ELSE IF cleanRuns >= 2 THEN 2 ELSE cleanRuns + 1
  /\ runDirty' = FALSE
  /\ UNCHANGED <<updater, ledger, nextId, prices, holdings>>

\* A step raises: its uncommitted connection is rolled back and
\* recompile_all returns False
RecompileFails ==
  /\ Running
  /\ fault = pc
  /\ pc' = "failed"
  /\ fault' = "none"
  /\ webPending' = FALSE
  /\ runDirty' = FALSE
  /\ UNCHANGED <<updater, ledger, nextId, prices, holdings, daily, history, cleanRuns>>

\* The snapshots the price tracker may save for today: every product at
\* $2.00, or product 1 without a price
Snapshots == {[p \in Products |-> 2000 * Mill],
              [p \in Products |-> IF p = 1 THEN NULL ELSE 2000 * Mill]}

\* The web_app deployment: its handlers, the price tracker and the recompiler
Next ==
  \/ \E p \in Products, ty \in Types, q \in 1..MaxQty, d \in Dates, pr \in TxPrices :
       WebAddTransaction(p, ty, q, d, pr)
  \/ \E id \in 1..MaxTx : WebDeleteTransaction(id)
  \/ \E snapshot \in Snapshots : SavePrices(snapshot)
  \/ RecompileAll("none")
  \/ UpdatePortfolioHoldingsTable
  \/ RecalculateDailyPortfolioValues

Spec == Init /\ [][Next]_vars

\* The same deployment with a recompiler whose steps may raise
NextFault ==
  \/ \E p \in Products, ty \in Types, q \in 1..MaxQty, d \in Dates, pr \in TxPrices :
       WebAddTransaction(p, ty, q, d, pr)
  \/ \E id \in 1..MaxTx : WebDeleteTransaction(id)
  \/ \E f \in {"none", "holdings", "daily"} : RecompileAll(f)
  \/ UpdatePortfolioHoldingsTable
  \/ RecalculateDailyPortfolioValues
  \/ RecompileFails

SpecFault == Init /\ [][NextFault]_vars

\* The Streamlit / fastapi_app front end and the delete script, with the
\* recompiler run beside them
NextLegacy ==
  \/ \E p \in Products, ty \in Types, q \in 1..MaxQty, d \in Dates, pr \in TxPrices :
       TMAddTransaction(p, ty, q, d, pr)
  \/ \E id \in 1..MaxTx : SoftDeleteTransaction(id)
  \/ \E id \in 1..MaxTx : ScriptDeleteTransaction(id)
  \/ RecompileAll("none")
  \/ UpdatePortfolioHoldingsTable
  \/ RecalculateDailyPortfolioValues

SpecLegacy == Init /\ [][NextLegacy]_vars

\* ------------------------------------- the recompiler over any stored data
\* price_per_unit and total_amount of a stored BUY or SELL row: both set and
\* agreeing, total_amount missing, or a total_amount that is not
\* quantity * price_per_unit; of an OPEN row: both missing, or both set
StoredMoney(transaction_type, quantity) ==
  IF transaction_type = "OPEN"
  THEN {<<NULL, NULL>>, <<1000 * Mill, quantity * 1000 * Mill>>}
  ELSE {<<1005 * Mill, quantity * 1005 * Mill>>, <<1000 * Mill, NULL>>,
        <<1000 * Mill, 2500 * Mill>>}

\* The rows the transactions table can hold under transaction_id id
StoredRows(id) ==
  {[transaction_id   |-> id,
    product_id       |-> p,
    transaction_type |-> ty,
    quantity         |-> q,
    price_per_unit   |-> m[1],
    total_amount     |-> m[2],
    transaction_date |-> d,
    input_date       |-> d,
    date_adjusted    |-> FALSE,
    is_deleted       |-> FALSE]
   : <<p, ty, q, d, m>> \in
       {x \in Products \X Types \X (1..MaxQty) \X Dates
                \X {<<a, b>> : a \in {NULL, 1000 * Mill, 1005 * Mill},
                               b \in {NULL} \cup {k * 1000 * Mill : k \in 1..MaxQty}
                                            \cup {k * 1005 * Mill : k \in 1..MaxQty}
                                            \cup {2500 * Mill}}
          : x[4] >= EarliestDate(x[1]) /\ x[5] \in StoredMoney(x[2], x[3])}}

\* The contents of daily_prices/: no file; the file of day 1; files of days 1
\* and 3; a file of day 3 only; a file of day 2 only
PriceStores ==
  {<<>>,
   (1 :> [p \in Products |-> IF p = 1 THEN 125 * Mill ELSE NULL]),
   (1 :> [p \in Products |-> IF p = 1 THEN 125 * Mill ELSE 2000 * Mill])
     @@ (3 :> [p \in Products |-> IF p = 1 THEN 2000 * Mill ELSE NULL]),
   (3 :> [p \in Products |-> 2000 * Mill]),
   (2 :> [p \in Products |-> IF p = 1 THEN NULL ELSE 2000 * Mill])}

\* Any ledger of up to MaxTx rows and any of the price stores, the derived
\* tables not yet built
InitAny ==
  /\ \E n \in 0..MaxTx :
       /\ nextId = n + 1
       /\ \E rows \in [1..n -> UNION {StoredRows(id) : id \in 1..n}] :
            /\ \A id \in 1..n : rows[id].transaction_id = id
            /\ ledger = {rows[id] : id \in 1..n}
  /\ prices \in PriceStores
  /\ holdings = {}
  /\ daily = {}
  /\ history = {}
  /\ pc = "idle"
  /\ fault = "none"
  /\ webPending = FALSE
  /\ cleanRuns = 0
  /\ runDirty = FALSE
  /\ updater = UpdaterIdle

\* portfolio_recompiler.py run by hand over the stored data
NextRecompile ==
  \/ RecompileAll("none")
  \/ UpdatePortfolioHoldingsTable
  \/ RecalculateDailyPortfolioValues

SpecRecompile == InitAny /\ [][NextRecompile]_vars

\* -------------------------------------- the caller's timeout on a run
\* subprocess.run(..., timeout=60) in web_app.py, timeout=300 in
\* daily_updater.py and daily_price_tracker.py: when the time is up the
\* child process is killed where it stands. What it had committed stays;
\* the open SQLite transaction of the step it was in is rolled back. The
\* caller catches the exception and goes on.
RecompileKilled ==
  /\ Running
  /\ fault = pc
  /\ pc' = "killed"
  /\ fault' = "none"
  /\ webPending' = FALSE
  /\ runDirty' = FALSE
  /\ UNCHANGED <<updater, ledger, nextId, prices, holdings, daily, history, cleanRuns>>

NextAbort ==
  \/ \E p \in Products, ty \in Types, q \in 1..MaxQty, d \in Dates, pr \in TxPrices :
       WebAddTransaction(p, ty, q, d, pr)
  \/ \E id \in 1..MaxTx : WebDeleteTransaction(id)
  \/ \E f \in {"none", "holdings", "daily"} : RecompileAll(f)
  \/ UpdatePortfolioHoldingsTable
  \/ RecalculateDailyPortfolioValues
  \/ RecompileKilled

SpecAbort == Init /\ [][NextAbort]_vars

\* ------------------------------------- two recompilations at the same time
\* The daily updater starts portfolio_recompiler.py as a process of its own,
\* whatever the web application is doing. Each step of the process reads the
\* transactions table first (get_all_transactions, on a connection that is
\* closed at once) and writes its tables later in one SQLite transaction;
\* nothing holds the database between the read and the write.
UpdaterRecompileAll ==
  /\ updater.pc = "idle"
  /\ updater' = [pc |-> "holdings", transactions_df |-> {}]
  /\ UNCHANGED <<ledger, nextId, prices, holdings, daily, history, pc, fault,
                 webPending, cleanRuns, runDirty>>

\* get_all_transactions at the head of either step
UpdaterGetAllTransactions ==
  /\ updater.pc \in {"holdings", "daily"}
  /\ updater' = [pc |-> IF updater.pc = "holdings" THEN "write_holdings" ELSE "write_daily",
                 transactions_df |-> ledger]
  /\ UNCHANGED <<ledger, nextId, prices, holdings, daily, history, pc, fault,
                 webPending, cleanRuns, runDirty>>

\* DELETE, INSERT and commit of update_portfolio_holdings_table
UpdaterUpdatePortfolioHoldingsTable ==
  /\ updater.pc = "write_holdings"
  /\ holdings' = IF updater.transactions_df = {} THEN {}
                 ELSE holdings_rows(updater.transactions_df)
  /\ updater' = [pc |-> "daily", transactions_df |-> {}]
  /\ Changed
  /\ UNCHANGED <<ledger, nextId, prices, daily, history, pc, fault, webPending>>

\* DELETE, INSERT and commit of recalculate_daily_portfolio_values
UpdaterRecalculateDailyPortfolioValues ==
  /\ updater.pc = "write_daily"
  /\ daily' = IF updater.transactions_df = {} THEN {}
              ELSE daily_rows(updater.transactions_df, prices, daily)
  /\ history' = IF updater.transactions_df = {} THEN history
                ELSE cost_history_rows(updater.transactions_df, prices)
  /\ updater' = [pc |-> "done", transactions_df |-> {}]
  /\ Changed
  /\ UNCHANGED <<ledger, nextId, prices, holdings, pc, fault, webPending>>

NextConcurrent ==
  \/ \E p \in Products, ty \in Types, q \in 1..MaxQty, d \in Dates, pr \in TxPrices :
       WebAddTransaction(p, ty, q, d, pr)
  \/ \E id \in 1..MaxTx : WebDeleteTransaction(id)
  \/ RecompileAll("none")
  \/ UpdatePortfolioHoldingsTable
  \/ RecalculateDailyPortfolioValues
  \/ UpdaterRecompileAll
  \/ UpdaterGetAllTransactions
  \/ UpdaterUpdatePortfolioHoldingsTable
  \/ UpdaterRecalculateDailyPortfolioValues

SpecConcurrent == Init /\ [][NextConcurrent]_vars

\* ------------------------------------------------- editing a transaction
\* web_app.py update_transaction (PUT). Every path through the handler ends
\* in an exception before the UPDATE: 404 for a missing row, 400 for
\* insufficient inventory or missing fields, and for a request that passes
\* those checks the read of transaction.transaction_type, a field
\* TransactionUpdate does not have (AttributeError, answered with 500).
\* Nothing is committed and no recompilation is started.
WebUpdateTransaction(transaction_id, quantity, price, input_date) ==
  /\ ~webPending
  /\ UNCHANGED vars

\* transaction_editor.py partial_update_transaction (PATCH): quantity and
\* price_per_unit are optional (NULL here: not given). The price is stored
\* as sent, for a row of any type; total_amount = quantity * ? is evaluated
\* by SQLite over the row as it was, and only when a price is given. The
\* handler then runs the recompiler.
partial_update_transaction(existing, quantity, price_per_unit) ==
  [existing EXCEPT
     !.quantity       = IF quantity = NULL THEN @ ELSE quantity,
     !.price_per_unit = IF price_per_unit = NULL THEN @ ELSE price_per_unit,
     !.total_amount   = IF price_per_unit = NULL THEN @
                        ELSE existing.quantity * price_per_unit]

PartialUpdateTransaction(transaction_id, quantity, price_per_unit) ==
  /\ ~webPending
  /\ quantity # NULL \/ price_per_unit # NULL
  /\ \E existing \in ledger :
       /\ existing.transaction_id = transaction_id
       /\ ledger' = (ledger \ {existing})
                      \cup {partial_update_transaction(existing, quantity, price_per_unit)}
  /\ webPending' = TRUE
  /\ Changed
  /\ UNCHANGED <<updater, nextId, prices, holdings, daily, history, pc, fault>>

\* The price a partial update sends: one with a fraction of a cent, which
\* the editor stores unrounded
EditPrices == {1005 * Mill}

NextEdit ==
  \/ \E p \in Products, ty \in Types, q \in 1..MaxQty, d \in Dates, pr \in TxPrices :
       WebAddTransaction(p, ty, q, d, pr)
  \/ \E id \in 1..MaxTx, q \in 1..MaxQty, pr \in EditPrices \cup {NULL}, d \in Dates :
       WebUpdateTransaction(id, q, pr, d)
  \/ \E id \in 1..MaxTx, q \in (1..MaxQty) \cup {NULL}, pr \in EditPrices \cup {NULL} :
       PartialUpdateTransaction(id, q, pr)
  \/ RecompileAll("none")
  \/ UpdatePortfolioHoldingsTable
  \/ RecalculateDailyPortfolioValues

SpecEdit == Init /\ [][NextEdit]_vars

\* ------------------------------------- the ledger API of web_app.py
\* POST, PUT and DELETE /api/transactions, each followed by the recompiler
NextLedgerApi ==
  \/ \E p \in Products, ty \in Types, q \in 1..MaxQty, d \in Dates, pr \in TxPrices :
       WebAddTransaction(p, ty, q, d, pr)
  \/ \E id \in 1..MaxTx, q \in 1..MaxQty, pr \in EditPrices \cup {NULL}, d \in Dates :
       WebUpdateTransaction(id, q, pr, d)
  \/ \E id \in 1..MaxTx : WebDeleteTransaction(id)
  \/ RecompileAll("none")
  \/ UpdatePortfolioHoldingsTable
  \/ RecalculateDailyPortfolioValues

SpecLedgerApi == Init /\ [][NextLedgerApi]_vars

\* ------------------------------------------------------------ the claims
\* A step of the recompiler that commits or ends the run
RunStep == Running /\ pc' # pc

\* The holding of a product that has no row: every total is zero
NoHolding ==
  [cost_basis_quantity |-> 0, sealed_quantity |-> 0, total_cost_basis |-> 0,
   average_cost_per_unit |-> 0, total_bought |-> 0, total_sold |-> 0, total_opened |-> 0]

HoldingOf(h, p) == IF p \in DOMAIN h THEN h[p] ELSE NoHolding

\* The quantity of the rows of one product and kind dated up to the cutoff,
\* summed row by row over the transaction ids 1..n
RECURSIVE QuantityUpTo(_, _, _, _, _)
QuantityUpTo(txs, p, type, cutoff, n) ==
  IF n = 0 THEN 0
  ELSE QuantityUpTo(txs, p, type, cutoff, n - 1)
       + (IF \E t \in txs : /\ t.transaction_id = n
                            /\ t.product_id = p
                            /\ t.transaction_type = type
                            /\ t.transaction_date <= cutoff
          THEN (CHOOSE t \in txs : t.transaction_id = n).quantity
          ELSE 0)

\* The latest-dated row of daily_portfolio_value
LatestDaily(daily_table) ==
  CHOOSE r \in daily_table : \A o \in daily_table : o.date <= r.date

\* What recompile_all writes for a ledger and price store
RebuiltHoldings(txs) == IF txs = {} THEN {} ELSE holdings_rows(txs)

RebuiltDaily(txs, files, old_daily) ==
  IF txs = {} THEN {} ELSE daily_rows(txs, files, old_daily)

\* The rows of the ledger that are not marked deleted
NotDeleted(txs) == {t \in txs : ~t.is_deleted}

\* C1: a recompilation run over a ledger, price store and day that have not
\* changed since the previous complete run leaves portfolio_holdings,
\* daily_portfolio_value and per_product_cost_history exactly as that run
\* left them (every committing step of the second run changes no row).
C1_Idempotent == [][(cleanRuns >= 1 /\ RunStep) => UNCHANGED tables]_vars

\* Two complete runs in a row over an unchanged ledger that has a SELL with a
\* realized gain, so the running total is not trivially zero.
C1_Witness ==
  /\ cleanRuns = 2
  /\ pc = "done"
  /\ holdings # {}
  /\ history # {}
  /\ \E r \in daily : r.cumulative_realized_pnl # 0

\* C2: after a successful recompile_all the summary's total_cost_basis and
\* current_market_value equal the total_cost_basis and total_market_value of
\* the latest-dated row of daily_portfolio_value.
C2_SummaryAgreement ==
  (pc = "done" /\ daily # {}) =>
    LET summary == get_portfolio_summary(holdings, daily)
        latest  == LatestDaily(daily)
    IN /\ summary.total_cost_basis = latest.total_cost_basis
       /\ summary.current_market_value = latest.total_market_value

\* A completed run whose summary reports no cost basis while the latest daily
\* row carries one.
C2_Witness ==
  /\ pc = "done"
  /\ daily # {}
  /\ get_portfolio_summary(holdings, daily).total_cost_basis = 0
  /\ LatestDaily(daily).total_cost_basis > 0

\* C3: in every row of daily_portfolio_value the stored unrealized_pnl equals
\* the stored total_market_value minus the stored total_cost_basis.
C3_DailyRowConsistent ==
  \A r \in daily : r.unrealized_pnl = r.total_market_value - r.total_cost_basis

\* A daily row with market value below cost basis whose stored unrealized_pnl
\* is one cent away from the difference of the stored totals.
C3_Witness ==
  \E r \in daily :
    /\ r.total_market_value > 0
    /\ r.total_market_value < r.total_cost_basis
    /\ r.unrealized_pnl = r.total_market_value - r.total_cost_basis - Cent

\* C4: the holdings rebuild and the daily-series rebuild of a run become
\* visible together: a step of the run that changes portfolio_holdings also
\* leaves daily_portfolio_value rebuilt from the same ledger.
C4_AtomicVisibility ==
  [][(RunStep /\ holdings' # holdings) => daily' = RebuiltDaily(ledger, prices, daily)]_vars

\* Mid-run, a reader sees portfolio_holdings rebuilt from the ledger while
\* daily_portfolio_value is not.
C4_Witness ==
  /\ pc = "daily"
  /\ ledger # {}
  /\ holdings # {}
  /\ holdings = RebuiltHoldings(ledger)
  /\ daily # RebuiltDaily(ledger, prices, daily)

\* C5: a recompilation run in which some step raises leaves
\* portfolio_holdings, daily_portfolio_value and per_product_cost_history as
\* they were before the run, and the run ends reporting failure.
C5_FailedRunChangesNothing ==
  [][(fault # "none" /\ RunStep)
       => (UNCHANGED tables /\ (fault = pc => pc' = "failed"))]_vars

\* A run has failed in its second step after its first step rewrote
\* portfolio_holdings: the holdings match the ledger, the daily series does not.
C5_Witness ==
  /\ pc = "failed"
  /\ holdings # {}
  /\ holdings = RebuiltHoldings(ledger)
  /\ daily = {}

\* C6: no row with a negative quantity is ever written to portfolio_holdings
\* or per_product_cost_history (a ledger that makes a quantity negative ends
\* the run in an error instead).
C6_NoNegativeQuantityWritten ==
  /\ \A h \in holdings : h.current_quantity >= 0
  /\ \A r \in history : r.sealed_quantity >= 0 /\ r.cost_basis_quantity >= 0

\* A run completed normally and portfolio_holdings has a row with a negative
\* current_quantity.
C6_Witness ==
  /\ pc = "done"
  /\ \E h \in holdings : h.current_quantity < 0

\* C7: the rows recompile_all writes to portfolio_holdings and
\* daily_portfolio_value are those of the ledger without its rows marked
\* deleted.
C7_DeletedNeverCount ==
  [][/\ (pc = "holdings" /\ pc' = "daily")
          => holdings' = RebuiltHoldings(NotDeleted(ledger))
     /\ (pc = "daily" /\ pc' = "done")
          => daily' = RebuiltDaily(NotDeleted(ledger), prices, daily)]_vars

\* A completed run over a ledger whose only row is marked deleted, with that
\* row's quantity in portfolio_holdings.
C7_Witness ==
  /\ pc = "done"
  /\ cleanRuns >= 1
  /\ ledger # {}
  /\ \A t \in ledger : t.is_deleted
  /\ \E h \in holdings : h.total_quantity_bought > 0

\* C8: every step that changes the ledger leaves portfolio_holdings and
\* daily_portfolio_value equal to what recompile_all writes for the new ledger.
C8_MutationEndsInFullRebuild ==
  [][ledger' # ledger
       => /\ holdings' = RebuiltHoldings(ledger')
          /\ daily' = RebuiltDaily(ledger', prices, daily')]_vars

\* With no run in progress and the ledger unchanged since it was last written,
\* the tables left by TransactionManager.add_transaction differ from a rebuild.
C8_Witness ==
  /\ pc = "idle"
  /\ ledger # {}
  /\ \A t \in ledger : ~t.is_deleted
  /\ holdings # {}
  /\ holdings # RebuiltHoldings(ledger)
  /\ daily # RebuiltDaily(ledger, prices, daily)

\* C9: adding an OPEN row of quantity q dated on or before the cutoff leaves
\* the product's cost_basis_quantity, total_cost_basis and
\* average_cost_per_unit as they were, lowers its sealed_quantity by exactly
\* q, and leaves every other product's holding as it was.
C9_WithdrawalNeutral ==
  \A p \in Products, q \in 1..MaxQty, d \in Dates :
    LET open == NewRow(p, "OPEN", q, NULL, NULL, d)
    IN \A cutoff \in open.transaction_date..MaxDate :
         LET before == calculate_holdings_at_date(ledger, cutoff)
             after  == calculate_holdings_at_date(ledger \cup {open}, cutoff)
         IN /\ p \in DOMAIN after
            /\ after[p].cost_basis_quantity = HoldingOf(before, p).cost_basis_quantity
            /\ after[p].total_cost_basis = HoldingOf(before, p).total_cost_basis
            /\ after[p].average_cost_per_unit = HoldingOf(before, p).average_cost_per_unit
            /\ after[p].sealed_quantity = HoldingOf(before, p).sealed_quantity - q
            /\ \A o \in Products \ {p} :
                 /\ o \in DOMAIN after <=> o \in DOMAIN before
                 /\ o \in DOMAIN before => after[o] = before[o]

\* The ledger holds an OPEN row of a product with a BUY and a SELL row, all
\* dated up to today: with the OPEN row the product's sealed quantity is lower
\* and its cost-basis quantity is the same as without it.
C9_Witness ==
  \E t \in ledger :
    /\ t.transaction_type = "OPEN"
    /\ t.transaction_date <= Today
    /\ LET before == calculate_holdings_at_date(ledger \ {t}, Today)
           after  == calculate_holdings_at_date(ledger, Today)
       IN /\ t.product_id \in DOMAIN before
          /\ before[t.product_id].cost_basis_quantity > 0
          /\ after[t.product_id].cost_basis_quantity
               = before[t.product_id].cost_basis_quantity
          /\ after[t.product_id].sealed_quantity
               = before[t.product_id].sealed_quantity - t.quantity

\* C10: calculate_holdings_at_date counts exactly the rows dated on or before
\* the cutoff: a product has a holding iff it has such a row, its
\* total_bought / total_sold / total_opened are the quantities of its BUY /
\* SELL / OPEN rows dated <= cutoff, sealed_quantity = bought - sold - opened
\* and cost_basis_quantity = bought - sold.
C10_InclusiveCutoff ==
  \A cutoff \in 0..MaxDate :
    LET h == calculate_holdings_at_date(ledger, cutoff)
    IN /\ DOMAIN h = {p \in Products :
                        \E t \in ledger : t.product_id = p /\ t.transaction_date <= cutoff}
       /\ \A p \in DOMAIN h :
            LET b == QuantityUpTo(ledger, p, "BUY", cutoff, MaxTx)
                s == QuantityUpTo(ledger, p, "SELL", cutoff, MaxTx)
                o == QuantityUpTo(ledger, p, "OPEN", cutoff, MaxTx)
            IN /\ h[p].total_bought = b
               /\ h[p].total_sold = s
               /\ h[p].total_opened = o
               /\ h[p].sealed_quantity = b - s - o
               /\ h[p].cost_basis_quantity = b - s

\* A BUY dated today and a SELL of the same product dated tomorrow: the SELL
\* counts at tomorrow's cutoff and not at today's, the BUY counts at today's
\* and not at yesterday's.
C10_Witness ==
  \E b \in ledger, s \in ledger :
    /\ b.transaction_type = "BUY" /\ b.transaction_date = Today
    /\ s.transaction_type = "SELL" /\ s.transaction_date = Today + 1
    /\ s.product_id = b.product_id
    /\ b.product_id \notin DOMAIN calculate_holdings_at_date(ledger, Today - 1)
    /\ calculate_holdings_at_date(ledger, Today)[b.product_id].total_sold = 0
    /\ calculate_holdings_at_date(ledger, Today)[b.product_id].total_bought = b.quantity
    /\ calculate_holdings_at_date(ledger, Today + 1)[b.product_id].total_sold = s.quantity

\* The amounts of the rows of one product and kind dated up to the cutoff,
\* summed row by row over the transaction ids 1..n: a row counts with its
\* total_amount, or with quantity * price_per_unit when it has none (and with
\* nothing when it has neither)
RECURSIVE AmountUpTo(_, _, _, _, _)
AmountUpTo(txs, p, type, cutoff, n) ==
  IF n = 0 THEN 0
  ELSE AmountUpTo(txs, p, type, cutoff, n - 1)
       + (IF \E t \in txs : /\ t.transaction_id = n
                            /\ t.product_id = p
                            /\ t.transaction_type = type
                            /\ t.transaction_date <= cutoff
          THEN LET t == CHOOSE r \in txs : r.transaction_id = n
               IN IF t.total_amount # NULL THEN t.total_amount
                  ELSE IF t.price_per_unit # NULL THEN t.quantity * t.price_per_unit
                  ELSE 0
          ELSE 0)

\* C11: for every product and cutoff, total_cost_basis is the sum of the BUY
\* amounts minus the sum of the SELL amounts up to the cutoff (an amount being
\* the row's total_amount, or quantity * price_per_unit when that is missing),
\* stored rounded half-up to the cent and exact when the net amount is a whole
\* number of cents.
C11_NetProceedsCostBasis ==
  \A cutoff \in 0..MaxDate :
    LET h == calculate_holdings_at_date(ledger, cutoff)
    IN \A p \in DOMAIN h :
         LET net == AmountUpTo(ledger, p, "BUY", cutoff, MaxTx)
                    - AmountUpTo(ledger, p, "SELL", cutoff, MaxTx)
         IN /\ h[p].total_cost_basis = round_price(net)
            /\ net % Cent = 0 => h[p].total_cost_basis = net

\* A completed run over a BUY row without total_amount and a SELL row of the
\* same product: the holdings row carries the BUY's quantity * price less the
\* SELL's total_amount, which is not the remaining quantity at average cost.
C11_Witness ==
  /\ pc = "done"
  /\ \E b \in ledger, s \in ledger, h \in holdings :
       /\ b.transaction_type = "BUY" /\ s.transaction_type = "SELL"
       /\ b.product_id = h.product_id /\ s.product_id = h.product_id
       /\ b.transaction_date <= Today /\ s.transaction_date <= Today
       /\ b.total_amount = NULL /\ b.price_per_unit # NULL
       /\ s.total_amount # NULL
       /\ h.total_cost_basis = b.quantity * b.price_per_unit - s.total_amount
       /\ h.total_cost_basis # h.current_quantity * h.average_cost_per_unit

\* C12: for every product and cutoff, average_cost_per_unit is the BUY amount
\* used for the cost basis (total_amount, else quantity * price_per_unit)
\* divided by the quantity bought, rounded to the cent, and 0 when nothing
\* was bought.
C12_AcquisitionOnlyAverage ==
  \A cutoff \in 0..MaxDate :
    LET h == calculate_holdings_at_date(ledger, cutoff)
    IN \A p \in DOMAIN h :
         LET acquire_amount == AmountUpTo(ledger, p, "BUY", cutoff, MaxTx)
             total_acquired == QuantityUpTo(ledger, p, "BUY", cutoff, MaxTx)
         IN h[p].average_cost_per_unit
              = IF total_acquired > 0
                THEN round_price(acquire_amount \div total_acquired) ELSE 0

\* A completed run over a product whose only row up to today is a BUY with a
\* total_amount that is not quantity * price_per_unit: the stored average is
\* the price, not total_amount / quantity.
C12_Witness ==
  /\ pc = "done"
  /\ \E b \in ledger, h \in holdings :
       /\ b.transaction_type = "BUY"
       /\ b.product_id = h.product_id
       /\ b.transaction_date <= Today
       /\ \A t \in ledger : (t.product_id = b.product_id /\ t.transaction_date <= Today)
                               => t = b
       /\ b.total_amount # NULL
       /\ b.total_amount # b.quantity * b.price_per_unit
       /\ h.average_cost_per_unit = round_price(b.price_per_unit)
       /\ h.average_cost_per_unit # round_price(b.total_amount \div b.quantity)

\* quantity * price_per_unit of the BUY rows of one product dated up to the
\* cutoff, summed row by row over the transaction ids 1..n
RECURSIVE BuyCostUpTo(_, _, _, _)
BuyCostUpTo(txs, p, cutoff, n) ==
  IF n = 0 THEN 0
  ELSE BuyCostUpTo(txs, p, cutoff, n - 1)
       + (IF \E t \in txs : /\ t.transaction_id = n
                            /\ t.product_id = p
                            /\ t.transaction_type = "BUY"
                            /\ t.transaction_date <= cutoff
                            /\ t.price_per_unit # NULL
          THEN LET t == CHOOSE r \in txs : r.transaction_id = n
               IN t.quantity * t.price_per_unit
          ELSE 0)

\* Sale proceeds less quantity * (average purchase price of the BUY rows of
\* the product dated up to the sale), for the SELL row of id n
RealizedOfSale(txs, n) ==
  LET sell   == CHOOSE r \in txs : r.transaction_id = n
      bought == QuantityUpTo(txs, sell.product_id, "BUY", sell.transaction_date, MaxTx)
      cost   == BuyCostUpTo(txs, sell.product_id, sell.transaction_date, MaxTx)
      avg    == IF bought > 0 THEN cost \div bought ELSE 0
      proceeds == IF sell.total_amount # NULL THEN sell.total_amount
                  ELSE sell.quantity * sell.price_per_unit
  IN proceeds - sell.quantity * avg

\* The sum of RealizedOfSale over the SELL rows dated after lo and up to hi,
\* row by row over the transaction ids 1..n
RECURSIVE RealizedBetween(_, _, _, _)
RealizedBetween(txs, lo, hi, n) ==
  IF n = 0 THEN 0
  ELSE RealizedBetween(txs, lo, hi, n - 1)
       + (IF \E t \in txs : /\ t.transaction_id = n
                            /\ t.transaction_type = "SELL"
                            /\ lo < t.transaction_date
                            /\ t.transaction_date <= hi
          THEN RealizedOfSale(txs, n) ELSE 0)

C14_RealizedCarriedForward ==
  pc = "done" =>
    \A r \in daily :
      (\A t \in ledger : ~(t.transaction_type = "SELL" /\ t.transaction_date = r.date))
        => LET earlier == {o \in daily : o.date < r.date}
           IN r.cumulative_realized_pnl
                = IF earlier = {} THEN 0
                  ELSE LatestDaily(earlier).cumulative_realized_pnl

\* A completed run with a SELL dated on one row's date and none on the next
\* row's: the next row carries the same non-zero total.
C14_Witness ==
  /\ pc = "done"
  /\ \E r1 \in daily, r2 \in daily :
       /\ r1.date < r2.date
       /\ \A o \in daily : ~(r1.date < o.date /\ o.date < r2.date)
       /\ \E t \in ledger : t.transaction_type = "SELL" /\ t.transaction_date = r1.date
       /\ \A t \in ledger : ~(t.transaction_type = "SELL" /\ t.transaction_date = r2.date)
       /\ r1.cumulative_realized_pnl # 0
       /\ r2.cumulative_realized_pnl = r1.cumulative_realized_pnl

\* The non-null price of a product in the latest snapshot dated on or before
\* d, NULL when no such snapshot has one
PriceOnOrBefore(files, p, d) ==
  LET ds == {x \in DOMAIN files : x <= d /\ files[x][p] # NULL}
  IN IF ds = {} THEN NULL ELSE files[Max(ds)][p]

\* C15: for every date of the series and every product held sealed on it, the
\* price used for the market value is the product's price in the snapshot of
\* that date, else its price in the latest snapshot dated before it, and no
\* price when no snapshot on or before the date has one.
C15_PriceFallback ==
  ledger # {} =>
    \A d \in available_dates(ledger, prices) :
      LET h == calculate_holdings_at_date(ledger, d)
      IN \A p \in DOMAIN h :
           h[p].sealed_quantity > 0
             => market_price_for(prices, available_dates(ledger, prices), p, d,
                                 h[p].sealed_quantity)
                  = PriceOnOrBefore(prices, p, d)

\* A completed run whose first row is dated after a snapshot that prices the
\* product held sealed on it: the row's market value is 0.
C15_Witness ==
  /\ pc = "done"
  /\ \E r \in daily, b \in ledger :
       /\ \A t \in ledger : t = b
       /\ b.transaction_type = "BUY"
       /\ r.date = b.transaction_date
       /\ PriceOnOrBefore(prices, b.product_id, r.date) # NULL
       /\ PriceOnOrBefore(prices, b.product_id, r.date) > 0
       /\ r.total_market_value = 0

\* sealed_quantity * price summed over the products held sealed on d that
\* have a snapshot price on or before d
MarketValueOnOrBefore(txs, files, d) ==
  LET h      == calculate_holdings_at_date(txs, d)
      priced == {p \in DOMAIN h : /\ h[p].sealed_quantity > 0
                                  /\ PriceOnOrBefore(files, p, d) # NULL}
  IN SumFn([p \in priced |-> h[p].sealed_quantity * PriceOnOrBefore(files, p, d)],
           priced)

\* The cost bases of every product with a holding on d, summed
CostBasisOfAll(txs, d) ==
  LET h == calculate_holdings_at_date(txs, d)
  IN SumFn([p \in DOMAIN h |-> h[p].total_cost_basis], DOMAIN h)

\* C16: after a run every date of the series has a row; its
\* total_market_value is sealed_quantity * price summed over the products
\* held sealed that have a price on or before the date (a product without
\* one adds 0), and its total_cost_basis includes every product's cost basis.
C16_MarketValueAndPriceGaps ==
  (pc = "done" /\ ledger # {}) =>
    /\ daily # {}
    /\ \A r \in daily :
         /\ r.total_market_value
              = round_price(MarketValueOnOrBefore(ledger, prices, r.date))
         /\ r.total_cost_basis = round_price(CostBasisOfAll(ledger, r.date))

\* A completed run with a row that includes the cost basis of the product
\* held but whose market value is not that of the price on or before its date.
C16_Witness ==
  /\ pc = "done"
  /\ \E r \in daily :
       /\ r.total_cost_basis > 0
       /\ r.total_cost_basis = round_price(CostBasisOfAll(ledger, r.date))
       /\ MarketValueOnOrBefore(ledger, prices, r.date) > 0
       /\ r.total_market_value
            # round_price(MarketValueOnOrBefore(ledger, prices, r.date))

\* The dates the series must cover: snapshot dates, transaction dates and
\* today, from the earliest transaction date on
AxisDates ==
  LET event_dates == {t.transaction_date : t \in ledger}
  IN {d \in (DOMAIN prices) \cup event_dates \cup {Today} : d >= Min(event_dates)}

\* C17: after a run over a non-empty ledger the series has exactly one row
\* per date among the snapshot dates, the transaction dates and today that
\* is on or after the earliest transaction date: no other date, no date
\* twice, and the first row is dated the earliest transaction date.
C17_DateAxis ==
  (pc = "done" /\ ledger # {}) =>
    /\ {r.date : r \in daily} = AxisDates
    /\ \A r1, r2 \in daily : r1.date = r2.date => r1 = r2
    /\ Min({r.date : r \in daily}) = Min({t.transaction_date : t \in ledger})

\* A completed run where a snapshot is older than the earliest transaction,
\* the earliest transaction date has no snapshot of its own, and a later
\* date has a row too.
C17_Witness ==
  /\ pc = "done"
  /\ ledger # {}
  /\ LET first == Min({t.transaction_date : t \in ledger})
     IN /\ \E d \in DOMAIN prices : d < first
        /\ first \notin DOMAIN prices
        /\ \E r \in daily : r.date = first
        /\ \E r \in daily : r.date > first

\* C18: a recompilation killed by its caller's timeout is a no-op: whatever
\* the point at which the kill lands, no step of that run has changed
\* portfolio_holdings, daily_portfolio_value or per_product_cost_history, so
\* the tables after the kill are those the run found.
C18_AbortedRunIsNoOp ==
  [][(Running /\ fault # "none")
       => (UNCHANGED tables /\ (RecompileKilled \/ pc' = "daily"))]_vars

\* A run killed in its second step after its first step had committed a
\* rebuilt holdings table: holdings of the new ledger beside a daily series
\* that was never rebuilt.
C18_Witness ==
  /\ pc = "killed"
  /\ ledger # {}
  /\ holdings = RebuiltHoldings(ledger)
  /\ daily = {}
  /\ history = {}

\* A run of either process has written one of its two tables and not yet
\* the other
BetweenWrites(position) == position \in {"daily", "write_daily"}

\* C19: two recompilations under way at the same time never interleave
\* their writes (neither writes a derived table while the other is between
\* its own two writes), and once both have finished, with no web request
\* waiting, portfolio_holdings and daily_portfolio_value are those of one
\* complete run over the final ledger.
C19_SingleWriter ==
  /\ [][/\ (UpdatePortfolioHoldingsTable \/ RecalculateDailyPortfolioValues)
             => ~BetweenWrites(updater.pc)
        /\ (UpdaterUpdatePortfolioHoldingsTable \/ UpdaterRecalculateDailyPortfolioValues)
             => ~BetweenWrites(pc)]_vars
  /\ [](/\ pc = "done"
        /\ updater.pc = "done"
        /\ ~webPending
        => /\ holdings = RebuiltHoldings(ledger)
           /\ daily = RebuiltDaily(ledger, prices, daily))

\* Both runs have finished and no web request is waiting, yet the holdings
\* table is the one the updater computed from a ledger it read before the
\* web request changed it, beside a daily series of the final ledger.
C19_Witness ==
  /\ pc = "done"
  /\ updater.pc = "done"
  /\ ~webPending
  /\ ledger # {}
  /\ holdings # RebuiltHoldings(ledger)
  /\ daily = RebuiltDaily(ledger, prices, daily)

\* C20: whatever adds, full updates and partial updates have been made,
\* every row of the transactions table has a price_per_unit exactly when it
\* is a BUY or a SELL, and an OPEN row has neither price_per_unit nor
\* total_amount.
C20_PriceExactlyForPricedKinds ==
  \A t \in ledger :
    /\ (t.price_per_unit # NULL) <=> (t.transaction_type \in {"BUY", "SELL"})
    /\ t.transaction_type = "OPEN" => t.total_amount = NULL

\* An OPEN row that a partial update has given a price and a total amount,
\* with the recompilation that followed completed.
C20_Witness ==
  /\ pc = "done"
  /\ ~webPending
  /\ \E t \in ledger :
       /\ t.transaction_type = "OPEN"
       /\ t.price_per_unit # NULL
       /\ t.total_amount = t.quantity * t.price_per_unit

\* C21: whatever adds, full updates and partial updates have been made,
\* every row of the transactions table that has a price_per_unit has
\* total_amount = quantity * price_per_unit, for the quantity and the price
\* it holds now.
C21_TotalInStepWithQuantityAndPrice ==
  \A t \in ledger :
    t.price_per_unit # NULL => t.total_amount = t.quantity * t.price_per_unit

\* A BUY or SELL row whose quantity a partial update has changed, left with
\* the total_amount of its former quantity, and recompiled.
C21_Witness ==
  /\ pc = "done"
  /\ ~webPending
  /\ \E t \in ledger :
       /\ t.transaction_type \in {"BUY", "SELL"}
       /\ t.price_per_unit # NULL
       /\ t.total_amount # NULL
       /\ t.total_amount # t.quantity * t.price_per_unit

\* What C22 asks of a stored row for which entered was given as the date
ClampedTo(t, entered) ==
  /\ t.transaction_date = Max({entered, EarliestDate(t.product_id)})
  /\ t.input_date = entered
  /\ t.date_adjusted = (entered < EarliestDate(t.product_id))

ItemsHeld(txs) == {t.product_id : t \in {x \in txs : x.transaction_date <= Today}}

\* C23: when recompile_all has rebuilt portfolio_holdings, the table has
\* exactly one row for each product with a ledger entry (one not deleted)
\* dated on or before today, no row for any other product, and each row
\* holds the values calculate_holdings_at_date gives for today.
C23_NoStaleHoldingsRows ==
  [][(pc = "holdings" /\ pc' = "daily") =>
       LET entries == NotDeleted(ledger)
           current == calculate_holdings_at_date(entries, Today)
       IN /\ {h.product_id : h \in holdings'} = ItemsHeld(entries)
          /\ \A h1, h2 \in holdings' : h1.product_id = h2.product_id => h1 = h2
          /\ \A h \in holdings' :
               h.product_id \in DOMAIN current =>
                 /\ h.total_quantity_bought = current[h.product_id].total_bought
                 /\ h.total_quantity_sold = current[h.product_id].total_sold
                 /\ h.total_quantity_opened = current[h.product_id].total_opened
                 /\ h.current_quantity = current[h.product_id].sealed_quantity
                 /\ h.total_cost_basis = current[h.product_id].total_cost_basis
                 /\ h.average_cost_per_unit = current[h.product_id].average_cost_per_unit]_vars

\* A completed run over a ledger in which every entry of some product has
\* been deleted, with a row for that product in portfolio_holdings.
C23_Witness ==
  /\ pc = "done"
  /\ holdings = RebuiltHoldings(ledger)
  /\ \E h \in holdings :
       /\ \E t \in ledger : t.product_id = h.product_id
       /\ \A t \in ledger : t.product_id = h.product_id => t.is_deleted

\* C24: a recompile_all that runs over an empty ledger leaves
\* portfolio_holdings, daily_portfolio_value and per_product_cost_history
\* without rows, whatever they held before.
C24_EmptyLedgerEmptiesTables ==
  [][(pc = "daily" /\ pc' = "done" /\ ledger = {})
       => (holdings' = {} /\ daily' = {} /\ history' = {})]_vars

\* The last entry has been deleted and the recompilation that followed has
\* completed: holdings and daily series are empty, the per-product history
\* still has the rows of the entry that is gone.
C24_Witness ==
  /\ pc = "done"
  /\ ~webPending
  /\ ledger = {}
  /\ nextId > 1
  /\ holdings = {}
  /\ daily = {}
  /\ history # {}

\* The rows of per_product_cost_history for one date
HistoryOn(d) == {x \in history : x.date = d}

\* C25: after a recompilation, for every date of daily_portfolio_value the
\* per-product history has exactly one row for each product with a ledger
\* entry dated on or before that date, no row for another product, and the
\* total_cost_basis of those rows add up to the total_cost_basis of the
\* daily row.
C25_HistoryReconstructsDaily ==
  pc = "done" =>
    \A r \in daily :
      LET items == {t.product_id : t \in {x \in ledger : x.transaction_date <= r.date}}
      IN /\ {x.product_id : x \in HistoryOn(r.date)} = items
         /\ \A p \in items :
              Cardinality({x \in HistoryOn(r.date) : x.product_id = p}) = 1
         /\ SumFn([p \in items |->
                     (CHOOSE x \in HistoryOn(r.date) : x.product_id = p).total_cost_basis],
                  items)
              = r.total_cost_basis

\* A completed run with a date on which two products have history rows, one
\* of them not held sealed, and a cost basis that is not zero.
C25_Witness ==
  /\ pc = "done"
  /\ \E r \in daily :
       /\ r.total_cost_basis # 0
       /\ Cardinality(HistoryOn(r.date)) = 2
       /\ \E x \in HistoryOn(r.date) : x.sealed_quantity <= 0

\* BUY amounts minus SELL amounts of one product up to a date, not rounded
NetAmountUpTo(p, d) ==
  AmountUpTo(ledger, p, "BUY", d, MaxTx) - AmountUpTo(ledger, p, "SELL", d, MaxTx)

\* C26: the total_cost_basis stored for a date is the half-up rounding to
\* the cent of the sum over the products of their unrounded cost bases up to
\* that date; no product's amount is rounded before the sum is taken.
C26_RoundingOnlyAtStorage ==
  pc = "done" =>
    \A r \in daily :
      r.total_cost_basis
        = round_price(SumFn([p \in Products |-> NetAmountUpTo(p, r.date)], Products))

\* A completed run with a row whose stored cost basis is the sum of the
\* products' cost bases each rounded to the cent, which is not the rounding
\* of their sum.
C26_Witness ==
  /\ pc = "done"
  /\ \E r \in daily :
       /\ r.total_cost_basis
            = SumFn([p \in Products |-> round_price(NetAmountUpTo(p, r.date))], Products)
       /\ r.total_cost_basis
            # round_price(SumFn([p \in Products |-> NetAmountUpTo(p, r.date)], Products))

\* bought - sold - opened of a product over the whole ledger
InventoryTotal(p) ==
  QuantityUpTo(ledger, p, "BUY", MaxDate, MaxTx)
    - QuantityUpTo(ledger, p, "SELL", MaxDate, MaxTx)
    - QuantityUpTo(ledger, p, "OPEN", MaxDate, MaxTx)

\* C27: web_app add_transaction takes no SELL or OPEN whose quantity is
\* more than the product's bought - sold - opened total (no entry is
\* inserted and no recompilation is asked for), and it takes every SELL or
\* OPEN whose quantity is at most that total.
C27_InsufficientInventoryRejected ==
  /\ [][\A p \in Products, ty \in {"SELL", "OPEN"}, q \in 1..MaxQty,
          d \in Dates, pr \in TxPrices :
          WebAddTransaction(p, ty, q, d, pr) => q <= InventoryTotal(p)]_vars
  /\ [](\A p \in Products, ty \in {"SELL", "OPEN"}, q \in 1..MaxQty :
          /\ q > InventoryTotal(p)
               => ~ENABLED (\E d \in Dates, pr \in TxPrices :
                              WebAddTransaction(p, ty, q, d, pr))
          /\ (q <= InventoryTotal(p) /\ ~webPending /\ nextId <= MaxTx)
               => \A d \in Dates :
                    ENABLED (\E pr \in TxPrices : WebAddTransaction(p, ty, q, d, pr)))

\* A product with 1 unit in the ledger and the handler free to take another
\* entry: a SELL or OPEN of 2 is over the total, one of 1 is within it.
C27_Witness ==
  /\ ~webPending
  /\ nextId <= MaxTx
  /\ pc = "done"
  /\ \E p \in Products : InventoryTotal(p) = 1

\* C28: whatever add_transaction, update_transaction and delete_transaction
\* calls of web_app have been made, the bought - sold - opened total of
\* every product over the whole ledger is at least 0.
C28_NonNegativeInventory == \A p \in Products : InventoryTotal(p) >= 0

\* Recompiled and at rest, with a product whose SELL or OPEN entries
\* outnumber what is left of its BUY entries.
C28_Witness ==
  /\ pc = "done"
  /\ ~webPending
  /\ \E p \in Products :
       /\ InventoryTotal(p) < 0
       /\ \A t \in ledger : t.product_id = p => t.transaction_type # "BUY"

\* No entry has ever been deleted: transaction ids are never given twice,
\* so the ledger holds every entry that was added
OnlyAdds == Cardinality(ledger) = nextId - 1

\* C29: for a ledger built by accepted add_transaction calls alone, every
\* per-product row the recompilation writes, for every date of the series,
\* has sealed_quantity >= 0.
C29_NonNegativeAtEveryDate ==
  OnlyAdds => \A r \in history : r.sealed_quantity >= 0

\* A ledger of accepted adds, recompiled: a per-product row with negative
\* sealed_quantity on a date before the BUY that covers the SELL or OPEN.
C29_Witness ==
  /\ OnlyAdds
  /\ pc = "done"
  /\ ~webPending
  /\ \E r \in history :
       /\ r.sealed_quantity < 0
       /\ InventoryTotal(r.product_id) >= 0
       /\ \E t \in ledger : /\ t.product_id = r.product_id
                            /\ t.transaction_type = "BUY"
                            /\ t.transaction_date > r.date

\* A PUT request the handler's checks let through: the entry exists, a SELL
\* or OPEN is covered by the product's other entries, and a BUY or SELL
\* comes with a price (purchase fields are taken as given)
ValidUpdate(existing, quantity, price) ==
  /\ existing \in ledger
  /\ ~webPending
  /\ validate_inventory_for_transaction(ledger \ {existing}, existing.product_id,
                                        quantity, existing.transaction_type)
  /\ existing.transaction_type \in {"BUY", "SELL"} => price # NULL

\* The entry as the UPDATE statement of update_transaction would leave it
UpdatedEntry(existing, quantity, price, input_date) ==
  LET price_per_unit == IF existing.transaction_type = "OPEN" THEN NULL
                        ELSE round_price(price)
      dated == validate_transaction_date(existing.product_id, input_date)
  IN [existing EXCEPT
        !.quantity         = quantity,
        !.price_per_unit   = price_per_unit,
        !.total_amount     = IF price_per_unit = NULL THEN NULL
                             ELSE round_price(quantity * price_per_unit),
        !.transaction_date = dated[1],
        !.input_date       = input_date,
        !.date_adjusted    = dated[2]]

\* C30: for every valid PUT request on an existing entry, update_transaction
\* has the step that stores the new quantity, price, total_amount and dates
\* in that entry, changes no other field or entry, and asks for a
\* recompilation; and a PUT on an id that is not in the ledger changes
\* nothing.
C30_FullUpdateTakesEffect ==
  /\ \A existing \in ledger, q \in 1..MaxQty, pr \in EditPrices \cup {NULL}, d \in Dates :
       ValidUpdate(existing, q, pr) =>
         ENABLED (/\ WebUpdateTransaction(existing.transaction_id, q, pr, d)
                  /\ ledger' = (ledger \ {existing})
                                 \cup {UpdatedEntry(existing, q, pr, d)}
                  /\ webPending')
  /\ \A id \in 1..MaxTx, q \in 1..MaxQty, pr \in EditPrices \cup {NULL}, d \in Dates :
       (~webPending /\ \A t \in ledger : t.transaction_id # id) =>
         ~ENABLED (WebUpdateTransaction(id, q, pr, d) /\ ledger' # ledger)

\* Recompiled and at rest with a BUY entry of 1 unit: a PUT of quantity 2 at
\* another price is a valid request that would change the entry.
C30_Witness ==
  /\ pc = "done"
  /\ \E existing \in ledger :
       /\ existing.transaction_type = "BUY"
       /\ existing.quantity = 1
       /\ \E pr \in EditPrices :
            /\ ValidUpdate(existing, 2, pr)
            /\ UpdatedEntry(existing, 2, pr, existing.input_date) # existing

====
